---- MODULE Spec2Model ----
(***************************************************************************)
(* A model of the movable-tree CRDT: the mutable forest (mut_tree.rs), the *)
(* persistent forest (tree.rs), the log-spaced snapshot cache              *)
(* (log_spaced_snapshots.rs) and the two replicas built on them: the undo  *)
(* variant (crdt_undo.rs) and the snapshot variant (crdt.rs).              *)
(*                                                                         *)
(* A driver issues public calls (new_node, mov, delete, merge) to a set of *)
(* replicas: of the undo variant (mode "undo"), of the snapshot variant    *)
(* (mode "snap"), or the same calls to a set of each (mode "both").  Nodes *)
(* are named by the position of the new_node call that returned them (the *)
(* `ids` vector of the tests), so each variant is passed the ID it         *)
(* returned itself.  A panic (a failed assert!, unwrap or unreachable!)    *)
(* aborts the run: no further call is made.                                *)
(***************************************************************************)
EXTENDS Integers, Sequences, FiniteSets, TLC

\* ---------------------------------------------------------------- bounds
NClients == 2
MaxOps == 4
MaxNodes == 2

Clients == 1..NClients

\* Option::None. An ID is the pair <<lamport, client>>.
None == << >>

\* #[derive(PartialOrd, Ord)] on ID { lamport, client }: lexicographic.
IdLess(a, b) == a[1] < b[1] \/ (a[1] = b[1] /\ a[2] < b[2])

IdLeq(a, b) == a = b \/ IdLess(a, b)

Max2(a, b) == IF a >= b THEN a ELSE b

\* HashMap::insert
Put(map, k, v) == [x \in (DOMAIN map) \cup {k} |-> IF x = k THEN v ELSE map[x]]

\* Forest::new (both forests): the empty map.
EmptyForest == << >>

\* ------------------------------------------------- mut_tree.rs: Forest
\* The loop of Forest::is_ancestor_of. `fuel` bounds the walk: a walk longer
\* than the map is a walk round a cycle, which the code never leaves ("hang").
RECURSIVE MutWalk(_, _, _, _)
MutWalk(map, maybe_ancestor, node_id, fuel) ==
    IF node_id \notin DOMAIN map THEN "panic"
    ELSE LET p == map[node_id].parent IN
         IF p = None THEN "false"
         ELSE IF p = maybe_ancestor THEN "true"
         ELSE IF p = node_id THEN "panic"
         ELSE IF fuel = 0 THEN "hang"
         ELSE MutWalk(map, maybe_ancestor, p, fuel - 1)

MutIsAncestorOfNoSelf(map, maybe_ancestor, node_id) ==
    MutWalk(map, maybe_ancestor, node_id, Cardinality(DOMAIN map))

MutIsAncestorOf(map, maybe_ancestor, node_id) ==
    IF maybe_ancestor = node_id THEN "true"
    ELSE MutWalk(map, maybe_ancestor, node_id, Cardinality(DOMAIN map))

\* The mutable Forest's mov without its cycle test.
MutMovUnchecked(map, node_id, parent_id) ==
    [map |-> Put(map, node_id,
                 [parent |-> parent_id,
                  deleted |-> node_id \in DOMAIN map /\ map[node_id].deleted]),
     res |-> IF parent_id = None \/ parent_id \in DOMAIN map THEN "ok" ELSE "panic"]

\* Forest::mov. res: "ok" (Ok), "err" (Err(CyclicMoveErr)), "panic", "hang".
MutMov(map, node_id, parent_id) ==
    IF parent_id = None
    THEN [map |-> Put(map, node_id,
                      [parent |-> None,
                       deleted |-> node_id \in DOMAIN map /\ map[node_id].deleted]),
          res |-> "ok"]
    ELSE IF parent_id \notin DOMAIN map
    THEN [map |-> map, res |-> "panic"]
    ELSE IF node_id \in DOMAIN map
    THEN LET Checked(a) ==
                 IF a = "true" THEN [map |-> map, res |-> "err"]
                 ELSE IF a = "false"
                 THEN [map |-> [map EXCEPT ![node_id].parent = parent_id], res |-> "ok"]
                 ELSE [map |-> map, res |-> a]
         IN  Checked(MutIsAncestorOf(map, node_id, parent_id))
    ELSE [map |-> Put(map, node_id, [parent |-> parent_id, deleted |-> FALSE]),
          res |-> "ok"]

\* Forest::delete
MutDelete(map, node_id) ==
    IF node_id \notin DOMAIN map THEN [map |-> map, res |-> "panic"]
    ELSE [map |-> [map EXCEPT ![node_id].deleted = TRUE], res |-> "ok"]

\* Forest::undo_delete
MutUndoDelete(map, node_id) ==
    IF node_id \notin DOMAIN map THEN [map |-> map, res |-> "panic"]
    ELSE [map |-> [map EXCEPT ![node_id].deleted = FALSE], res |-> "ok"]

\* ---------------------------------------------------- operations and logs
\* Op { id, content }: content is New { parent }, Move { target, parent } or
\* Delete(target); the fields a content lacks are None.
OpNew(id, parent) == [id |-> id, kind |-> "New", target |-> None, parent |-> parent]

OpMove(id, target, parent) == [id |-> id, kind |-> "Move", target |-> target, parent |-> parent]

OpDelete(id, target) == [id |-> id, kind |-> "Delete", target |-> target, parent |-> None]

\* Vec::sort on ops (Ord for Op compares IDs): a stable insertion sort.
RECURSIVE InsertOp(_, _)
InsertOp(s, op) ==
    IF s = << >> THEN << op >>
    ELSE IF IdLess(op.id, s[Len(s)].id)
    THEN Append(InsertOp(SubSeq(s, 1, Len(s) - 1), op), s[Len(s)])
    ELSE Append(s, op)

RECURSIVE SortOps(_)
SortOps(s) ==
    IF s = << >> THEN << >>
    ELSE InsertOp(SortOps(SubSeq(s, 1, Len(s) - 1)), s[Len(s)])

\* Strictly ascending IDs.
SortedIds(idseq) == \A i \in 1..(Len(idseq) - 1) : IdLess(idseq[i], idseq[i + 1])

\* A search that reports every id as absent.
BinarySearchNeverFound(idseq, id) ==
    [found |-> FALSE,
     idx |-> Cardinality({i \in 1..Len(idseq) : IdLess(idseq[i], id)}),
     unsorted |-> ~SortedIds(idseq)]

\* slice::binary_search_by_key over a sequence of IDs. found/idx as Ok(idx) and
\* Err(idx), idx 0-based. On a slice that is not sorted the result is unspecified
\* by the standard library: reported as `unsorted`.
BinarySearch(idseq, id) ==
    [found |-> \E i \in 1..Len(idseq) : idseq[i] = id,
     idx |-> Cardinality({i \in 1..Len(idseq) : IdLess(idseq[i], id)}),
     unsorted |-> ~SortedIds(idseq)]

LogLenShort(log, c) == IF c \in DOMAIN log THEN Len(log[c]) - 1 ELSE 0

\* The diff loop shared by both merges (crdt_undo.rs 170-182, crdt.rs 143-155):
\* for each client of other.log, the ops beyond the receiver's length.
LogLen(log, c) == IF c \in DOMAIN log THEN Len(log[c]) ELSE 0

\* A diff that sends the last op the receiver holds once more.
MissingOverlap(selflog, otherlog, c) ==
    IF Len(otherlog[c]) > LogLen(selflog, c)
    THEN SubSeq(otherlog[c], Max2(LogLen(selflog, c), 1), Len(otherlog[c]))
    ELSE << >>

Missing(selflog, otherlog, c) ==
    IF Len(otherlog[c]) > LogLen(selflog, c)
    THEN SubSeq(otherlog[c], LogLen(selflog, c) + 1, Len(otherlog[c]))
    ELSE << >>

RECURSIVE IncomingAll(_, _, _)
IncomingAll(selflog, otherlog, cs) ==
    IF cs = {} THEN << >>
    ELSE LET c == CHOOSE x \in cs : \A y \in cs : x <= y
         IN  otherlog[c] \o IncomingAll(selflog, otherlog, cs \ {c})

\* The incoming ops, client by client. The code walks other.log in the hash
\* map's order; `ans` is only ever read through sort() and min(), and the
\* lamport update is a maximum, so the order is immaterial: ascending here.
RECURSIVE Incoming(_, _, _)
Incoming(selflog, otherlog, cs) ==
    IF cs = {} THEN << >>
    ELSE LET c == CHOOSE x \in cs : \A y \in cs : x <= y
         IN  Missing(selflog, otherlog, c) \o Incoming(selflog, otherlog, cs \ {c})

MergedLogKnownOnly(selflog, otherlog) ==
    [c \in DOMAIN selflog |->
        IF c \in DOMAIN otherlog THEN selflog[c] \o Missing(selflog, otherlog, c)
        ELSE selflog[c]]

\* A merge that overwrites a client's entry with the incoming ops.
MergedLogReplaces(selflog, otherlog) ==
    LET grown == {c \in DOMAIN otherlog : Len(otherlog[c]) > LogLen(selflog, c)}
    IN  [c \in (DOMAIN selflog) \cup grown |->
            IF c \in grown THEN Missing(selflog, otherlog, c) ELSE selflog[c]]

\* log after `entry.push(op.clone())` for every incoming op.
MergedLog(selflog, otherlog) ==
    LET grown == {c \in DOMAIN otherlog : Len(otherlog[c]) > LogLen(selflog, c)}
    IN  [c \in (DOMAIN selflog) \cup grown |->
            IF c \in grown
            THEN (IF c \in DOMAIN selflog THEN selflog[c] ELSE << >>)
                     \o Missing(selflog, otherlog, c)
            ELSE selflog[c]]

\* push_op's first line: self.log.entry(self.client).or_default().push(op)
LogPush(log, client, op) ==
    Put(log, client, (IF client \in DOMAIN log THEN log[client] ELSE << >>) \o << op >>)

\* ------------------------------------------------ crdt_undo.rs: Crdt
\* Crdt::new
UndoNew ==
    [forest |-> EmptyForest, next_lamport |-> 0, log |-> << >>,
     sorted_ops |-> << >>, applied_end |-> 0]

\* Crdt::push_op
UPushOp(c, client, op) ==
    [c EXCEPT !.log = LogPush(c.log, client, op),
              !.sorted_ops = Append(c.sorted_ops, [op |-> op, old_parent |-> None])]

\* The loop of Crdt::apply_pending_ops from (1-based) position i on.
RECURSIVE UApplyFrom(_, _, _)
UApplyFrom(forest, sorted_ops, i) ==
    IF i > Len(sorted_ops)
    THEN [forest |-> forest, sorted_ops |-> sorted_ops, panic |-> ""]
    ELSE LET Applied(op, old, m) ==
                 IF m.res \in {"ok", "err"}
                 THEN UApplyFrom(m.map,
                                 IF op.kind = "Move"
                                 THEN [sorted_ops EXCEPT ![i].old_parent = old]
                                 ELSE sorted_ops,
                                 i + 1)
                 ELSE [forest |-> forest, sorted_ops |-> sorted_ops, panic |-> m.res]
             Apply(op) ==
                 Applied(op,
                         IF op.target \in DOMAIN forest
                         THEN forest[op.target].parent ELSE None,
                         IF op.kind = "New" THEN MutMov(forest, op.id, op.parent)
                         ELSE IF op.kind = "Move" THEN MutMov(forest, op.target, op.parent)
                         ELSE MutDelete(forest, op.target))
         IN  Apply(sorted_ops[i].op)

\* Crdt::apply_pending_ops. Returns [st, panic].
UApplyPendingOps(c) ==
    LET Applied(r) ==
            [st |-> [c EXCEPT !.forest = r.forest, !.sorted_ops = r.sorted_ops,
                              !.applied_end = Len(c.sorted_ops)],
             panic |-> r.panic]
    IN  Applied(UApplyFrom(c.forest, c.sorted_ops, c.applied_end + 1))

\* Crdt::new_id: the ID handed out.
UNewId(c, client) == << c.next_lamport, client >>

\* new_node whose new_id leaves next_lamport as it was.
UNewNodeSameLamport(c, client, parent) ==
    UApplyPendingOps(UPushOp(c, client, OpNew(UNewId(c, client), parent)))

\* Crdt::new_node
UNewNode(c, client, parent) ==
    UApplyPendingOps(UPushOp([c EXCEPT !.next_lamport = c.next_lamport + 1], client,
                             OpNew(UNewId(c, client), parent)))

\* Crdt::mov
UMov(c, client, target, parent) ==
    UApplyPendingOps(UPushOp([c EXCEPT !.next_lamport = c.next_lamport + 1], client,
                             OpMove(UNewId(c, client), target, parent)))

\* Crdt::delete
UDelete(c, client, target) ==
    UApplyPendingOps(UPushOp([c EXCEPT !.next_lamport = c.next_lamport + 1], client,
                             OpDelete(UNewId(c, client), target)))

RECURSIVE UUndoFromSkipMove(_, _, _)
UUndoFromSkipMove(forest, ans, i) ==
    IF i = 0 THEN [map |-> forest, res |-> "ok"]
    ELSE IF ans[i].op.kind \in {"New", "Move"} THEN UUndoFromSkipMove(forest, ans, i - 1)
    ELSE LET Undone(m) ==
                 IF m.res = "ok" THEN UUndoFromSkipMove(m.map, ans, i - 1)
                 ELSE [map |-> forest, res |-> m.res]
         IN  Undone(MutUndoDelete(forest, ans[i].op.target))

\* The reverse loop of Crdt::revert_until over the drained suffix `ans`,
\* from its (1-based) position i down to 1.
RECURSIVE UUndoFrom(_, _, _)
UUndoFrom(forest, ans, i) ==
    IF i = 0 THEN [map |-> forest, res |-> "ok"]
    ELSE IF ans[i].op.kind = "New" THEN UUndoFrom(forest, ans, i - 1)
    ELSE LET Undone(m) ==
                 IF m.res \in {"ok", "err"} THEN UUndoFrom(m.map, ans, i - 1)
                 ELSE [map |-> forest, res |-> m.res]
         IN  Undone(IF ans[i].op.kind = "Move"
                    THEN MutMov(forest, ans[i].op.target, ans[i].old_parent)
                    ELSE MutUndoDelete(forest, ans[i].op.target))

\* The drained ops without the Deletes: a rewound Delete is not replayed.
UOpsOfNoDelete(tuples) ==
    LET kept == SelectSeq(tuples, LAMBDA t : t.op.kind # "Delete")
    IN  [i \in 1..Len(kept) |-> kept[i].op]

UOpsOf(tuples) == [i \in 1..Len(tuples) |-> tuples[i].op]

UIdsOf(tuples) == [i \in 1..Len(tuples) |-> tuples[i].op.id]

\* revert_until that undoes nothing.
URevertUntilNothing(c, id) == [st |-> c, popped |-> << >>, panic |-> ""]

\* Crdt::revert_until. Returns [st, popped, panic].
URevertUntil(c, id) ==
    LET Reverted(ans, kept, u) ==
            [st |-> [c EXCEPT !.forest = u.map, !.sorted_ops = kept,
                              !.applied_end = Len(kept)],
             popped |-> UOpsOf(ans),
             panic |-> IF u.res = "ok" THEN "" ELSE u.res]
        Drained(ans, kept) == Reverted(ans, kept, UUndoFrom(c.forest, ans, Len(ans)))
        Searched(bs) ==
            IF bs.unsorted THEN [st |-> c, popped |-> << >>, panic |-> "unsorted"]
            ELSE IF bs.found THEN [st |-> c, popped |-> << >>, panic |-> "unreachable"]
            ELSE Drained(SubSeq(c.sorted_ops, bs.idx + 1, Len(c.sorted_ops)),
                         SubSeq(c.sorted_ops, 1, bs.idx))
    IN  Searched(BinarySearch(UIdsOf(c.sorted_ops), id))

\* A merge that leaves next_lamport as it was.
UBumpNothing(next, ans, i) == next

RECURSIVE UBumpLax(_, _, _)
UBumpLax(next, ans, i) ==
    IF i > Len(ans) THEN next
    ELSE UBumpLax(IF ans[i].id[1] > next THEN ans[i].id[1] ELSE next, ans, i + 1)

\* next_lamport after the diff loop: `if lamport >= next { next = lamport + 1 }`.
RECURSIVE UBump(_, _, _)
UBump(next, ans, i) ==
    IF i > Len(ans) THEN next
    ELSE UBump(IF ans[i].id[1] >= next THEN ans[i].id[1] + 1 ELSE next, ans, i + 1)

\* ans.iter().min(): the first of the least ops.
MinOp(ans) == SortOps(ans)[1]

\* Crdt::merge. Returns [st, panic, branch]; branch names the path taken:
\* "empty" for the early return, "revert" when revert_until undid ops and
\* "append" when it found none to undo.
UMerge(c, other) ==
    LET Replayed(rv, ap) ==
            [st |-> ap.st, panic |-> ap.panic,
             branch |-> IF rv.popped = << >> THEN "append" ELSE "revert"]
        Sorted(rv, all) ==
            Replayed(rv, UApplyPendingOps(
                [rv.st EXCEPT !.sorted_ops =
                    rv.st.sorted_ops \o
                    [i \in 1..Len(all) |-> [op |-> all[i], old_parent |-> None]]]))
        Reverted(ans, rv) ==
            IF rv.panic # "" THEN [st |-> c, panic |-> rv.panic, branch |-> "revert"]
            ELSE Sorted(rv, SortOps(ans \o rv.popped))
        Diffed(ans, c1) ==
            IF ans = << >> THEN [st |-> c1, panic |-> "", branch |-> "empty"]
            ELSE Reverted(ans, URevertUntil(c1, MinOp(ans).id))
        Received(ans) ==
            Diffed(ans, [c EXCEPT !.log = MergedLog(c.log, other.log),
                                  !.next_lamport = UBump(c.next_lamport, ans, 1)])
    IN  Received(Incoming(c.log, other.log, DOMAIN other.log))

\* ----------------------------------------------------- tree.rs: Forest
\* The loop of Forest::is_ancestor_of (tree.rs).
RECURSIVE TreeWalk(_, _, _, _)
TreeWalk(map, maybe_ancestor, node_id, fuel) ==
    IF node_id \notin DOMAIN map THEN "panic"
    ELSE LET p == map[node_id].parent IN
         IF p = None THEN "false"
         ELSE IF p = maybe_ancestor THEN "true"
         ELSE IF p = node_id THEN "panic"
         ELSE IF fuel = 0 THEN "hang"
         ELSE TreeWalk(map, maybe_ancestor, p, fuel - 1)

TreeIsAncestorOfNoSelf(map, maybe_ancestor, node_id) ==
    TreeWalk(map, maybe_ancestor, node_id, Cardinality(DOMAIN map))

TreeIsAncestorOf(map, maybe_ancestor, node_id) ==
    IF maybe_ancestor = node_id THEN "true"
    ELSE TreeWalk(map, maybe_ancestor, node_id, Cardinality(DOMAIN map))

\* Forest::mov (tree.rs): a move to the root inserts a fresh node, deleted: false.
TreeMov(map, node_id, parent_id) ==
    IF parent_id = None
    THEN [map |-> Put(map, node_id, [parent |-> None, deleted |-> FALSE]), res |-> "ok"]
    ELSE IF parent_id \notin DOMAIN map
    THEN [map |-> map, res |-> "panic"]
    ELSE IF node_id \in DOMAIN map
    THEN LET Checked(a) ==
                 IF a = "true" THEN [map |-> map, res |-> "err"]
                 ELSE IF a = "false"
                 THEN [map |-> [map EXCEPT ![node_id].parent = parent_id], res |-> "ok"]
                 ELSE [map |-> map, res |-> a]
         IN  Checked(TreeIsAncestorOf(map, node_id, parent_id))
    ELSE [map |-> Put(map, node_id, [parent |-> parent_id, deleted |-> FALSE]),
          res |-> "ok"]

\* A delete that takes the node out of the map.
TreeDeleteRemoves(map, node_id) ==
    IF node_id \notin DOMAIN map THEN [map |-> map, res |-> "panic"]
    ELSE [map |-> [n \in (DOMAIN map) \ {node_id} |-> map[n]], res |-> "ok"]

\* Forest::delete (tree.rs)
TreeDelete(map, node_id) ==
    IF node_id \notin DOMAIN map THEN [map |-> map, res |-> "panic"]
    ELSE [map |-> [map EXCEPT ![node_id].deleted = TRUE], res |-> "ok"]

\* ------------------------------ log_spaced_snapshots.rs: LogSpacedSnapshots
\* a & !b on naturals, bit by bit.
RECURSIVE AndNot(_, _)
AndNot(a, b) ==
    IF a = 0 THEN 0
    ELSE (a % 2) * (1 - (b % 2)) + 2 * AndNot(a \div 2, b \div 2)

\* first_zero_bit: (n + 1) & !n
first_zero_bit(n) == AndNot(n + 1, n)

RECURSIVE Pow2(_)
Pow2(n) == IF n = 0 THEN 1 ELSE 2 * Pow2(n - 1)

\* LogSpacedSnapshots::new. keys is the Vec, cache the BTreeMap from a (0-based)
\* position in keys to the value.
LssNew(d) == [keys |-> << >>, cache |-> << >>, d |-> d]

\* The default parameter: Self::new(2).
D == 2

\* BTreeMap::remove that removes nothing.
WithoutNothing(cache, drop) == cache

\* BTreeMap::remove / retain
Without(cache, drop) == [k \in (DOMAIN cache) \ drop |-> cache[k]]

\* push whose assert accepts a version equal to the last key.
LssPushAllowEqual(c, version, value) ==
    LET Pushed(cache1) ==
            IF c.keys # << >> /\ ~IdLeq(c.keys[Len(c.keys)], version)
            THEN [c |-> [c EXCEPT !.cache = cache1], panic |-> "push_order"]
            ELSE [c |-> [c EXCEPT !.cache = cache1, !.keys = Append(c.keys, version)],
                  panic |-> ""]
        Thinned(new_version, delta) ==
            Pushed(Put(IF new_version >= delta
                       THEN Without(c.cache, {new_version - delta}) ELSE c.cache,
                       new_version, value))
    IN  Thinned(Len(c.keys), first_zero_bit(Len(c.keys)) * Pow2(c.d))

\* LogSpacedSnapshots::push. Returns [c, panic]; the assert comes after the
\* cache was updated.
LssPush(c, version, value) ==
    LET Pushed(cache1) ==
            IF c.keys # << >> /\ ~IdLess(c.keys[Len(c.keys)], version)
            THEN [c |-> [c EXCEPT !.cache = cache1], panic |-> "push_order"]
            ELSE [c |-> [c EXCEPT !.cache = cache1, !.keys = Append(c.keys, version)],
                  panic |-> ""]
        Thinned(new_version, delta) ==
            Pushed(Put(IF new_version >= delta
                       THEN Without(c.cache, {new_version - delta}) ELSE c.cache,
                       new_version, value))
    IN  Thinned(Len(c.keys), first_zero_bit(Len(c.keys)) * Pow2(c.d))

\* BTreeMap::last_key_value: the greatest position held, -1 for None.
LastPos(cache) ==
    IF DOMAIN cache = {} THEN -1
    ELSE CHOOSE k \in DOMAIN cache : \A j \in DOMAIN cache : j <= k

\* A pop that drains keys from the last held position on (drain(key..)).
LssPopDrainsLast(c, k) ==
    LET Popped(cache1, last, keys1) ==
            [c |-> [c EXCEPT !.cache = cache1, !.keys = keys1],
             some |-> keys1 # << >>,
             key |-> IF keys1 # << >> THEN keys1[Len(keys1)] ELSE None,
             value |-> IF keys1 # << >> THEN cache1[last] ELSE None,
             panic |-> ""]
        Last(cache1, last) ==
            Popped(cache1, last, IF last >= 1 THEN SubSeq(c.keys, 1, last) ELSE << >>)
        Removed(cache1) == Last(cache1, LastPos(cache1))
        Searched(bs, first_to_remove) ==
            IF bs.unsorted
            THEN [c |-> c, some |-> FALSE, key |-> None, value |-> None, panic |-> "unsorted"]
            ELSE Removed(Without(c.cache, {p \in DOMAIN c.cache : p >= first_to_remove}))
        Found(bs) == Searched(bs, IF bs.found THEN bs.idx + 1 ELSE bs.idx)
    IN  Found(BinarySearch(c.keys, k))

\* LogSpacedSnapshots::pop_till_snapshot_lte. Returns [c, some, key, value, panic]:
\* Some((key, value)) or None; panic when keys.drain's range starts past the end.
LssPopTillSnapshotLte(c, k) ==
    LET Popped(cache1, last, keys1) ==
            IF last + 1 > Len(c.keys)
            THEN [c |-> c, some |-> FALSE, key |-> None, value |-> None, panic |-> "panic"]
            ELSE [c |-> [c EXCEPT !.cache = cache1, !.keys = keys1],
                  some |-> keys1 # << >>,
                  key |-> IF keys1 # << >> THEN keys1[Len(keys1)] ELSE None,
                  value |-> IF keys1 # << >> THEN cache1[last] ELSE None,
                  panic |-> ""]
        Last(cache1, last) ==
            Popped(cache1, last, IF last >= 0 THEN SubSeq(c.keys, 1, last + 1) ELSE << >>)
        Removed(cache1) == Last(cache1, LastPos(cache1))
        Searched(bs, first_to_remove) ==
            IF bs.unsorted
            THEN [c |-> c, some |-> FALSE, key |-> None, value |-> None, panic |-> "unsorted"]
            ELSE Removed(Without(c.cache, {p \in DOMAIN c.cache : p >= first_to_remove}))
        Found(bs) == Searched(bs, IF bs.found THEN bs.idx + 1 ELSE bs.idx)
    IN  Found(BinarySearch(c.keys, k))

\* ------------------------------------------------------ crdt.rs: Crdt
\* Crdt::new
SnapNew ==
    [forest |-> EmptyForest, cache |-> LssNew(D), greatest_lamport |-> 0,
     log |-> << >>, sorted_ops |-> << >>, applied_end |-> 0]

\* Crdt::push_op
SPushOp(c, client, op) ==
    [c EXCEPT !.log = LogPush(c.log, client, op),
              !.sorted_ops = Append(c.sorted_ops, op)]

\* The loop of Crdt::apply_pending_ops from (1-based) position i on.
RECURSIVE SApplyFrom(_, _, _, _)
SApplyFrom(forest, cache, sorted_ops, i) ==
    IF i > Len(sorted_ops)
    THEN [forest |-> forest, cache |-> cache, panic |-> ""]
    ELSE LET Pushed(m, p) ==
                 IF p.panic # "" THEN [forest |-> m.map, cache |-> p.c, panic |-> p.panic]
                 ELSE SApplyFrom(m.map, p.c, sorted_ops, i + 1)
             Applied(op, m) ==
                 IF m.res \notin {"ok", "err"}
                 THEN [forest |-> forest, cache |-> cache, panic |-> m.res]
                 ELSE Pushed(m, LssPush(cache, op.id, m.map))
             Apply(op) ==
                 Applied(op,
                         IF op.kind = "New" THEN TreeMov(forest, op.id, op.parent)
                         ELSE IF op.kind = "Move" THEN TreeMov(forest, op.target, op.parent)
                         ELSE TreeDelete(forest, op.target))
         IN  Apply(sorted_ops[i])

\* Crdt::apply_pending_ops. Returns [st, panic].
SApplyPendingOps(c) ==
    LET Applied(r) ==
            [st |-> [c EXCEPT !.forest = r.forest, !.cache = r.cache,
                              !.applied_end = Len(c.sorted_ops)],
             panic |-> r.panic]
    IN  Applied(SApplyFrom(c.forest, c.cache, c.sorted_ops, c.applied_end + 1))

\* Crdt::new_id: the ID handed out.
SNewId(c, client) == << c.greatest_lamport, client >>

\* Crdt::new_node
SNewNode(c, client, parent) ==
    SApplyPendingOps(SPushOp([c EXCEPT !.greatest_lamport = c.greatest_lamport + 1], client,
                             OpNew(SNewId(c, client), parent)))

\* Crdt::mov
SMov(c, client, target, parent) ==
    SApplyPendingOps(SPushOp([c EXCEPT !.greatest_lamport = c.greatest_lamport + 1], client,
                             OpMove(SNewId(c, client), target, parent)))

\* Crdt::delete
SDelete(c, client, target) ==
    SApplyPendingOps(SPushOp([c EXCEPT !.greatest_lamport = c.greatest_lamport + 1], client,
                             OpDelete(SNewId(c, client), target)))

\* greatest_lamport after the diff loop: `if lamport > greatest { greatest = lamport }`.
RECURSIVE SBump(_, _, _)
SBump(greatest, ans, i) ==
    IF i > Len(ans) THEN greatest
    ELSE SBump(IF ans[i].id[1] > greatest THEN ans[i].id[1] ELSE greatest, ans, i + 1)

SIdsOf(ops) == [i \in 1..Len(ops) |-> ops[i].id]

SRestoreStale(c, snapshot, len) == [c EXCEPT !.applied_end = len]

\* merge's Some branch: self.forest = snapshot.clone(); self.applied_end = len
SRestore(c, snapshot, len) == [c EXCEPT !.forest = snapshot, !.applied_end = len]

\* A None branch that leaves every op marked as applied.
SReplayAllApplied(c, ans) ==
    [c EXCEPT !.sorted_ops = SortOps(ans \o c.sorted_ops),
              !.applied_end = Len(ans) + Len(c.sorted_ops)]

SReplayAllTail(c, ans) == [c EXCEPT !.sorted_ops = SortOps(ans \o c.sorted_ops)]

\* merge's None branch: ans.append(&mut self.sorted_ops); ans.sort();
\* self.sorted_ops = ans; self.applied_end = 0. The forest is left as it is.
SReplayAll(c, ans) ==
    [c EXCEPT !.sorted_ops = SortOps(ans \o c.sorted_ops), !.applied_end = 0]

\* Crdt::merge. Returns [st, panic, branch]; branch names the path taken:
\* "empty" for the early return, "some" when a snapshot is restored, "none"
\* when none is found, "first" when none is found and sorted_ops was empty.
SMerge(c, other) ==
    LET Replayed(ap, branch) == [st |-> ap.st, panic |-> ap.panic, branch |-> branch]
        Found(c1, ans, pop, bs) ==
            IF bs.unsorted \/ ~bs.found
            THEN [st |-> c, panic |-> "unwrap", branch |-> "some"]
            ELSE Replayed(
                     SApplyPendingOps(
                         [SRestore([c1 EXCEPT !.cache = pop.c], pop.value, bs.idx + 1)
                             EXCEPT !.sorted_ops =
                                 SubSeq(c1.sorted_ops, 1, bs.idx + 1) \o
                                 SortOps(ans \o SubSeq(c1.sorted_ops, bs.idx + 2,
                                                       Len(c1.sorted_ops)))]),
                     "some")
        Popped(c1, ans, pop) ==
            IF pop.panic # "" THEN [st |-> c, panic |-> pop.panic, branch |-> "some"]
            ELSE IF pop.some
            THEN Found(c1, ans, pop, BinarySearch(SIdsOf(c1.sorted_ops), pop.key))
            ELSE Replayed(SApplyPendingOps(SReplayAll([c1 EXCEPT !.cache = pop.c], ans)),
                          IF c1.sorted_ops = << >> THEN "first" ELSE "none")
        Sorted(c1, ans) == Popped(c1, ans, LssPopTillSnapshotLte(c1.cache, ans[1].id))
        Diffed(incoming, c1) ==
            IF incoming = << >> THEN [st |-> c1, panic |-> "", branch |-> "empty"]
            ELSE Sorted(c1, SortOps(incoming))
        Received(incoming) ==
            Diffed(incoming,
                   [c EXCEPT !.log = MergedLog(c.log, other.log),
                             !.greatest_lamport = SBump(c.greatest_lamport, incoming, 1)])
    IN  Received(Incoming(c.log, other.log, DOMAIN other.log))

\* ------------------------------------------------------------ the driver
VARIABLES
    mode,    \* the variants driven: "undo", "snap" or "both"
    undo,    \* client -> undo-variant replica (crdt_undo.rs Crdt)
    snap,    \* client -> snapshot-variant replica (crdt.rs Crdt)
    ids,     \* [u, s]: the IDs new_node returned, in call order, per variant
    panic,   \* [u, s]: "" while the variant runs, else what aborted it
    calls,   \* local calls (new_node, mov, delete) made so far
    last,    \* the last call [op, a, b] and, when it was a merge or an
             \* exchange, the path its merge took per variant [u, s] and
             \* the path the exchange's second merge took [u2, s2]
    pc,      \* "free" for the open driver, else the fuzz harness's position
    fz,      \* the fuzz harness's loop counters [j, pass, acts]
    trees,   \* the two Forests called directly [mut, tree] and the last
             \* call on them; None where no Forest is called directly
    lss      \* the LogSpacedSnapshots called directly and the last call on
             \* it; None where no cache is called directly

vars == << mode, undo, snap, ids, panic, calls, last, pc, fz, trees, lss >>

\* No call has panicked.
Running == panic.u = "" /\ panic.s = ""

\* The variant is driven and the run has not been aborted.
ULive == mode \in {"undo", "both"} /\ Running

SLive == mode \in {"snap", "both"} /\ Running

Replicas == DOMAIN undo

\* The node a handle names: 0 is None, h the h-th new_node's result.
UId(h) == IF h = 0 THEN None ELSE ids.u[h]

SId(h) == IF h = 0 THEN None ELSE ids.s[h]

\* The calls only reference nodes present in the issuing replica's forest.
Known(r, h) ==
    /\ Running
    /\ ULive => h \in 1..Len(ids.u) /\ ids.u[h] \in DOMAIN undo[r].forest
    /\ SLive => h \in 1..Len(ids.s) /\ ids.s[h] \in DOMAIN snap[r].forest

NHandles == Max2(Len(ids.u), Len(ids.s))

\* One method call on replica r of a variant: the replicas, the panic and the
\* merge path after it. res is the [st, panic] (and branch) the method returned.
UCall(r, res, branch) ==
    [f |-> [undo EXCEPT ![r] = res.st], panic |-> res.panic, br |-> branch, br2 |-> ""]

SCall(r, res, branch) ==
    [f |-> [snap EXCEPT ![r] = res.st], panic |-> res.panic, br |-> branch, br2 |-> ""]

\* a.merge(b); b.merge(a); assert_eq!(a.forest(), b.forest()) when `check`:
\* the body of the final loop of fuzz::fuzzing and the end of the unit tests.
\* m1 and m2 are what the two merges returned.
ExchangePanic(m1, m2, check) ==
    IF m1.panic # "" THEN m1.panic
    ELSE IF m2.panic # "" THEN m2.panic
    ELSE IF check /\ m1.st.forest # m2.st.forest THEN "assert_eq"
    ELSE ""

UExchanged(a, b, check, m1, m2) ==
    [f |-> [undo EXCEPT ![a] = m1.st, ![b] = m2.st],
     panic |-> ExchangePanic(m1, m2, check),
     br |-> m1.branch, br2 |-> m2.branch]

UExchangeBack(a, b, check, m1) == UExchanged(a, b, check, m1, UMerge(undo[b], m1.st))

UExchange(a, b, check) == UExchangeBack(a, b, check, UMerge(undo[a], undo[b]))

SExchanged(a, b, check, m1, m2) ==
    [f |-> [snap EXCEPT ![a] = m1.st, ![b] = m2.st],
     panic |-> ExchangePanic(m1, m2, check),
     br |-> m1.branch, br2 |-> m2.branch]

SExchangeBack(a, b, check, m1) == SExchanged(a, b, check, m1, SMerge(snap[b], m1.st))

SExchange(a, b, check) == SExchangeBack(a, b, check, SMerge(snap[a], snap[b]))

\* The outcome of one driver step in the variants driven: u and s are what the
\* call did to the undo and to the snapshot replicas. A call that panics
\* leaves its replicas as they were: nothing reads them afterwards.
Outcome(u, s, what, a, b) ==
    [undo |-> IF ULive /\ u.panic = "" THEN u.f ELSE undo,
     snap |-> IF SLive /\ s.panic = "" THEN s.f ELSE snap,
     panic |-> [u |-> IF ULive THEN u.panic ELSE "",
                s |-> IF SLive THEN s.panic ELSE ""],
     last |-> [op |-> what, a |-> a, b |-> b,
               u |-> IF ULive THEN u.br ELSE "", u2 |-> IF ULive THEN u.br2 ELSE "",
               s |-> IF SLive THEN s.br ELSE "", s2 |-> IF SLive THEN s.br2 ELSE ""]]

Commit(o) ==
    /\ undo' = o.undo
    /\ snap' = o.snap
    /\ panic' = o.panic
    /\ last' = o.last

UMerged(a, um) == UCall(a, um, um.branch)

SMerged(a, sm) == SCall(a, sm, sm.branch)

DoNewNode(r, ph) ==
    /\ \E o \in {Outcome(UCall(r, UNewNode(undo[r], r, UId(ph)), ""),
                         SCall(r, SNewNode(snap[r], r, SId(ph)), ""),
                         "new_node", r, r)} : Commit(o)
    /\ ids' = [u |-> IF ULive THEN Append(ids.u, UNewId(undo[r], r)) ELSE ids.u,
               s |-> IF SLive THEN Append(ids.s, SNewId(snap[r], r)) ELSE ids.s]

DoMov(r, t, ph) ==
    /\ \E o \in {Outcome(UCall(r, UMov(undo[r], r, UId(t), UId(ph)), ""),
                         SCall(r, SMov(snap[r], r, SId(t), SId(ph)), ""),
                         "mov", r, r)} : Commit(o)
    /\ ids' = ids

DoDelete(r, t) ==
    /\ \E o \in {Outcome(UCall(r, UDelete(undo[r], r, UId(t)), ""),
                         SCall(r, SDelete(snap[r], r, SId(t)), ""),
                         "delete", r, r)} : Commit(o)
    /\ ids' = ids

DoMerge(a, b) ==
    /\ \E o \in {Outcome(UMerged(a, UMerge(undo[a], undo[b])),
                         SMerged(a, SMerge(snap[a], snap[b])),
                         "merge", a, b)} : Commit(o)
    /\ ids' = ids

DoExchange(a, b, check) ==
    /\ \E o \in {Outcome(UExchange(a, b, check), SExchange(a, b, check),
                         "exchange", a, b)} : Commit(o)
    /\ ids' = ids

InitOver(rs, modes) ==
    /\ mode \in modes
    /\ undo = [c \in rs |-> UndoNew]
    /\ snap = [c \in rs |-> SnapNew]
    /\ ids = [u |-> << >>, s |-> << >>]
    /\ panic = [u |-> "", s |-> ""]
    /\ calls = 0
    /\ last = [op |-> "init", a |-> 0, b |-> 0, u |-> "", u2 |-> "", s |-> "", s2 |-> ""]
    /\ fz = [j |-> 0, pass |-> 0, acts |-> 0]
    /\ trees = None
    /\ lss = None

\* The open driver: Crdt::new(c) for every client c, then any calls.
Init == InitOver(Clients, {"undo", "snap"}) /\ pc = "free"

InitUndo == InitOver(Clients, {"undo"}) /\ pc = "free"

InitSnap == InitOver(Clients, {"snap"}) /\ pc = "free"

InitCross == InitOver(Clients, {"both"}) /\ pc = "free"

\* r.new_node(parent)
NewNode(r, ph) ==
    /\ pc = "free" /\ Running
    /\ calls < MaxOps /\ NHandles < MaxNodes
    /\ (ph # 0 => Known(r, ph))
    /\ DoNewNode(r, ph)
    /\ calls' = calls + 1
    /\ UNCHANGED << trees, lss, mode, pc, fz >>

\* r.mov(target, parent)
Mov(r, t, ph) ==
    /\ pc = "free" /\ Running /\ calls < MaxOps
    /\ Known(r, t)
    /\ (ph # 0 => Known(r, ph))
    /\ DoMov(r, t, ph)
    /\ calls' = calls + 1
    /\ UNCHANGED << trees, lss, mode, pc, fz >>

\* r.delete(target)
Delete(r, t) ==
    /\ pc = "free" /\ Running /\ calls < MaxOps
    /\ Known(r, t)
    /\ DoDelete(r, t)
    /\ calls' = calls + 1
    /\ UNCHANGED << trees, lss, mode, pc, fz >>

\* a.merge(&b); b = a is a merge with a clone of a.
Merge(a, b) ==
    /\ pc = "free" /\ Running
    /\ DoMerge(a, b)
    /\ UNCHANGED << trees, lss, mode, calls, pc, fz >>

\* a.merge(&b); b.merge(&a)
Exchange(a, b) ==
    /\ pc = "free" /\ Running
    /\ a # b
    /\ DoExchange(a, b, FALSE)
    /\ UNCHANGED << trees, lss, mode, calls, pc, fz >>

Next ==
    \/ \E r \in Clients, ph \in 0..MaxNodes : NewNode(r, ph)
    \/ \E r \in Clients, t \in 1..MaxNodes, ph \in 0..MaxNodes : Mov(r, t, ph)
    \/ \E r \in Clients, t \in 1..MaxNodes : Delete(r, t)
    \/ \E a \in Clients, b \in Clients : Merge(a, b)
    \/ \E a \in Clients, b \in Clients : Exchange(a, b)

\* Replicas of either variant.
Spec == Init /\ [][Next]_vars

\* Undo-variant replicas only.
SpecUndo == InitUndo /\ [][Next]_vars

\* Snapshot-variant replicas only.
SpecSnap == InitSnap /\ [][Next]_vars

\* The same calls to replicas of both variants.
SpecCross == InitCross /\ [][Next]_vars

\* ------------------------------------------------- the fuzz harness
\* fuzz::fuzzing(n_actors, actions) as the fuzz targets call it.
N_ACTORS == 4

\* Nodes actor 0 creates before the actions (256 in the code).
FuzzIds == 2

\* Length of the action list.
MaxActions == 3

\* Times the final loop over the adjacent pairs is run (once in the code).
Passes == 3

Actors == 0..(N_ACTORS - 1)

FinalPairsFromSecond == 2..(N_ACTORS - 1)

\* for i in 1..n_actors
FinalPairs == 1..(N_ACTORS - 1)

FirstPair == CHOOSE i \in FinalPairs : \A k \in FinalPairs : i <= k

\* for i in 0..n_actors { actors.push(Crdt::new(i as Client)) }
InitFuzz == InitOver(Actors, {"undo", "snap"}) /\ pc = "new"

\* ids.push(actors[0].new_node(None))
FuzzNew ==
    /\ pc = "new" /\ Running
    /\ DoNewNode(0, 0)
    /\ pc' = IF NHandles + 1 = FuzzIds THEN "broadcast" ELSE "new"
    /\ fz' = [fz EXCEPT !.j = 1]
    /\ UNCHANGED << trees, lss, mode, calls >>

\* for j in 1..n_actors { b.merge(a) } with a = actors[0], b = actors[j]
FuzzBroadcast ==
    /\ pc = "broadcast" /\ Running
    /\ DoMerge(fz.j, 0)
    /\ pc' = IF fz.j + 1 = N_ACTORS THEN "actions" ELSE "broadcast"
    /\ fz' = [fz EXCEPT !.j = fz.j + 1]
    /\ UNCHANGED << trees, lss, mode, calls >>

\* Action::Mov(client, a, b)
FuzzMov(client, a, b) ==
    /\ pc = "actions" /\ Running /\ fz.acts < MaxActions
    /\ DoMov(client, a, b)
    /\ fz' = [fz EXCEPT !.acts = fz.acts + 1]
    /\ UNCHANGED << trees, lss, mode, calls, pc >>

\* Action::Del(client, a)
FuzzDel(client, a) ==
    /\ pc = "actions" /\ Running /\ fz.acts < MaxActions
    /\ DoDelete(client, a)
    /\ fz' = [fz EXCEPT !.acts = fz.acts + 1]
    /\ UNCHANGED << trees, lss, mode, calls, pc >>

\* Action::Sync(a, b): nothing when a = b, else a.merge(b)
FuzzSync(a, b) ==
    /\ pc = "actions" /\ Running /\ fz.acts < MaxActions
    /\ IF a = b
       THEN /\ last' = [op |-> "skip", a |-> a, b |-> b, u |-> "", u2 |-> "", s |-> "", s2 |-> ""]
            /\ UNCHANGED << undo, snap, ids, panic >>
       ELSE DoMerge(a, b)
    /\ fz' = [fz EXCEPT !.acts = fz.acts + 1]
    /\ UNCHANGED << trees, lss, mode, calls, pc >>

\* The action list is exhausted.
FuzzEnd ==
    /\ pc = "actions" /\ Running
    /\ pc' = "final"
    /\ fz' = [fz EXCEPT !.j = FirstPair, !.pass = 0]
    /\ UNCHANGED << trees, lss, mode, undo, snap, ids, panic, calls, last >>

\* One turn of the final loop: a.merge(b); b.merge(a);
\* assert_eq!(a.forest(), b.forest()) with a = actors[i - 1], b = actors[i].
FuzzFinal ==
    /\ pc = "final" /\ Running
    /\ DoExchange(fz.j - 1, fz.j, TRUE)
    /\ IF fz.j + 1 \in FinalPairs
       THEN /\ fz' = [fz EXCEPT !.j = fz.j + 1]
            /\ pc' = pc
       ELSE /\ fz' = [fz EXCEPT !.j = FirstPair, !.pass = fz.pass + 1]
            /\ pc' = IF fz.pass + 1 = Passes THEN "done" ELSE "final"
    /\ UNCHANGED << trees, lss, mode, calls >>

NextFuzz ==
    \/ FuzzNew
    \/ FuzzBroadcast
    \/ \E client \in Actors, a \in 1..FuzzIds, b \in 1..FuzzIds : FuzzMov(client, a, b)
    \/ \E client \in Actors, a \in 1..FuzzIds : FuzzDel(client, a)
    \/ \E a \in Actors, b \in Actors : FuzzSync(a, b)
    \/ FuzzEnd
    \/ FuzzFinal

\* The fuzz harness on either variant.
SpecFuzz == InitFuzz /\ [][NextFuzz]_vars

\* ------------------------------------------- the unit tests' shape
\* test::test of both variants: replica 1 creates the nodes, the others
\* merge replica 1, then the replicas move nodes and merge one another.
SharedNodes == 3

MaxMoves == 2

InitShared == InitOver(Clients, {"undo", "snap"}) /\ pc = "grow"

\* ids.push(a.new_node(parent)) with a the replica of client 1
GrowNode(ph) ==
    /\ pc = "grow" /\ Running
    /\ (ph # 0 => Known(1, ph))
    /\ DoNewNode(1, ph)
    /\ pc' = IF NHandles + 1 = SharedNodes THEN "share" ELSE "grow"
    /\ fz' = [fz EXCEPT !.j = 2]
    /\ UNCHANGED << trees, lss, mode, calls >>

\* b.merge(&a) for every other replica b
ShareNodes ==
    /\ pc = "share" /\ Running
    /\ DoMerge(fz.j, 1)
    /\ pc' = IF fz.j = NClients THEN "moves" ELSE "share"
    /\ fz' = [fz EXCEPT !.j = fz.j + 1]
    /\ UNCHANGED << trees, lss, mode, calls >>

\* r.mov(target, parent)
SharedMov(r, t, ph) ==
    /\ pc = "moves" /\ Running /\ calls < MaxMoves
    /\ Known(r, t)
    /\ (ph # 0 => Known(r, ph))
    /\ DoMov(r, t, ph)
    /\ calls' = calls + 1
    /\ UNCHANGED << trees, lss, mode, pc, fz >>

\* a.merge(&b)
SharedMerge(a, b) ==
    /\ pc = "moves" /\ Running
    /\ a # b
    /\ DoMerge(a, b)
    /\ UNCHANGED << trees, lss, mode, calls, pc, fz >>

\* a.merge(&b); b.merge(&a)
SharedExchange(a, b) ==
    /\ pc = "moves" /\ Running
    /\ a # b
    /\ DoExchange(a, b, FALSE)
    /\ UNCHANGED << trees, lss, mode, calls, pc, fz >>

NextShared ==
    \/ \E ph \in 0..SharedNodes : GrowNode(ph)
    \/ ShareNodes
    \/ \E r \in Clients, t \in 1..SharedNodes, ph \in 0..SharedNodes : SharedMov(r, t, ph)
    \/ \E a \in Clients, b \in Clients : SharedMerge(a, b)
    \/ \E a \in Clients, b \in Clients : SharedExchange(a, b)

\* Moves and merges over nodes every replica knows.
SpecShared == InitShared /\ [][NextShared]_vars

\* ------------------------------------------- Forests called directly
\* Node ids handed to the Forests: the first MaxForestIds ids of client 1.
MaxForestIds == 3

ForestIds == {<< n, 1 >> : n \in 0..(MaxForestIds - 1)}

\* No replica is driven: the replica variables stay as they start.
NoReplicas ==
    /\ mode = "none"
    /\ undo = << >>
    /\ snap = << >>
    /\ ids = [u |-> << >>, s |-> << >>]
    /\ panic = [u |-> "", s |-> ""]
    /\ calls = 0
    /\ last = [op |-> "init", a |-> 0, b |-> 0, u |-> "", u2 |-> "", s |-> "", s2 |-> ""]
    /\ fz = [j |-> 0, pass |-> 0, acts |-> 0]

\* One call made on both Forests: what it was, what each Forest returned and
\* what each Forest held before it.
ForestCall(op, node_id, parent_id, m, t) ==
    [mut |-> m.map, tree |-> t.map,
     call |-> [op |-> op, node |-> node_id, parent |-> parent_id,
               mres |-> m.res, tres |-> t.res,
               mbefore |-> trees.mut, tbefore |-> trees.tree]]

\* A panic of either Forest ends the run.
ForestRunning ==
    pc = "forest" /\ trees.call.mres # "panic" /\ trees.call.tres # "panic"

\* Forest::new() of mut_tree.rs and of tree.rs
InitForest ==
    /\ NoReplicas
    /\ pc = "forest"
    /\ lss = None
    /\ trees = [mut |-> EmptyForest, tree |-> EmptyForest,
                call |-> [op |-> "new", node |-> None, parent |-> None,
                          mres |-> "ok", tres |-> "ok",
                          mbefore |-> EmptyForest, tbefore |-> EmptyForest]]

\* forest.mov(node_id, parent_id) on both Forests
ForestMov(node_id, parent_id) ==
    /\ ForestRunning
    /\ \E m \in {MutMov(trees.mut, node_id, parent_id)} :
       \E t \in {TreeMov(trees.tree, node_id, parent_id)} :
           trees' = ForestCall("mov", node_id, parent_id, m, t)
    /\ UNCHANGED << lss, mode, undo, snap, ids, panic, calls, last, pc, fz >>

\* forest.delete(node_id) on both Forests
ForestDelete(node_id) ==
    /\ ForestRunning
    /\ \E m \in {MutDelete(trees.mut, node_id)} :
       \E t \in {TreeDelete(trees.tree, node_id)} :
           trees' = ForestCall("delete", node_id, None, m, t)
    /\ UNCHANGED << lss, mode, undo, snap, ids, panic, calls, last, pc, fz >>

\* forest.undo_delete(node_id): the mutable Forest only
ForestUndoDelete(node_id) ==
    /\ ForestRunning
    /\ \E m \in {MutUndoDelete(trees.mut, node_id)} :
           trees' = ForestCall("undo_delete", node_id, None, m,
                               [map |-> trees.tree, res |-> "ok"])
    /\ UNCHANGED << lss, mode, undo, snap, ids, panic, calls, last, pc, fz >>

NextForest ==
    \/ \E node_id \in ForestIds, parent_id \in ForestIds \cup {None} :
           ForestMov(node_id, parent_id)
    \/ \E node_id \in ForestIds : ForestDelete(node_id)
    \/ \E node_id \in ForestIds : ForestUndoDelete(node_id)

\* Any calls on a mutable and a persistent Forest, the same on both.
SpecForest == InitForest /\ [][NextForest]_vars

\* ------------------------------------------- lib.rs: the crate-root Forest
\* The loop of Forest::is_ancestor_of(node_id, maybe_ancestor) of lib.rs: no
\* test of node_id against maybe_ancestor and none for a self-loop. `fuel`
\* bounds the walk: a walk longer than the map goes round a cycle for ever.
RECURSIVE LibWalk(_, _, _, _)
LibWalk(map, node_id, maybe_ancestor, fuel) ==
    IF node_id \notin DOMAIN map THEN "panic"
    ELSE LET p == map[node_id].parent IN
         IF p = None THEN "false"
         ELSE IF p = maybe_ancestor THEN "true"
         ELSE IF fuel = 0 THEN "hang"
         ELSE LibWalk(map, p, maybe_ancestor, fuel - 1)

LibIsAncestorOf(map, node_id, maybe_ancestor) ==
    LibWalk(map, node_id, maybe_ancestor, Cardinality(DOMAIN map))

\* Forest::mov of lib.rs on f = [roots, map]. Returns [f, res].
LibMov(f, node_id, parent_id) ==
    IF parent_id = None
    THEN [f |-> [roots |-> f.roots \cup {node_id},
                 map |-> Put(f.map, node_id, [parent |-> None])],
          res |-> "ok"]
    ELSE IF parent_id \notin DOMAIN f.map
    THEN [f |-> f, res |-> "panic"]
    ELSE IF node_id \in DOMAIN f.map
    THEN LET Checked(a) ==
                 IF a = "true" THEN [f |-> f, res |-> "err"]
                 ELSE IF a = "false"
                 THEN [f |-> [f EXCEPT !.map[node_id].parent = parent_id], res |-> "ok"]
                 ELSE [f |-> f, res |-> a]
         IN  Checked(LibIsAncestorOf(f.map, parent_id, node_id))
    ELSE [f |-> [f EXCEPT !.map = Put(f.map, node_id, [parent |-> parent_id])],
          res |-> "ok"]

\* Forest::new() of lib.rs
InitLib ==
    /\ NoReplicas
    /\ pc = "lib"
    /\ lss = None
    /\ trees = [lib |-> [roots |-> {}, map |-> EmptyForest],
                call |-> [op |-> "new", node |-> None, parent |-> None, res |-> "ok",
                          before |-> [roots |-> {}, map |-> EmptyForest]]]

\* forest.mov(node_id, parent_id); a panic or an endless walk ends the run.
LibMovCall(node_id, parent_id) ==
    /\ pc = "lib" /\ trees.call.res \in {"ok", "err"}
    /\ \E o \in {LibMov(trees.lib, node_id, parent_id)} :
           trees' = [lib |-> o.f,
                     call |-> [op |-> "mov", node |-> node_id, parent |-> parent_id,
                               res |-> o.res, before |-> trees.lib]]
    /\ UNCHANGED << lss, mode, undo, snap, ids, panic, calls, last, pc, fz >>

NextLib ==
    \E node_id \in ForestIds, parent_id \in ForestIds \cup {None} :
        LibMovCall(node_id, parent_id)

\* Any calls of mov on a crate-root Forest.
SpecLib == InitLib /\ [][NextLib]_vars

\* ------------------------------- LogSpacedSnapshots called directly
\* LogSpacedSnapshots<(lamport, client), usize> as the doc example and
\* test::snapshot drive it: versions are the IDs of client 1 with lamports up
\* to MaxVersion; a push made before any pop carries the value 0, a later one
\* the value 1.
MaxVersion == 6

MaxD == 2

Versions == {<< v, 1 >> : v \in 0..MaxVersion}

\* A panic of the cache ends the run.
CacheRunning == pc = "cache" /\ lss.call.panic = ""

\* The value of the next push.
NextValue == IF lss.popped THEN 1 ELSE 0

\* The values last pushed under the versions of keys.
PushedUnder(pushed, keys) ==
    [v \in {keys[i] : i \in 1..Len(keys)} |-> pushed[v]]

\* LogSpacedSnapshots::new(d). pushed is the value last pushed under each
\* version held, popped whether a pop was made.
InitCache ==
    /\ NoReplicas
    /\ pc = "cache"
    /\ trees = None
    /\ \E d \in 1..MaxD :
           lss = [c |-> LssNew(d), pushed |-> << >>, popped |-> FALSE,
                  call |-> [op |-> "new", arg |-> None, some |-> FALSE, key |-> None,
                            value |-> 0, panic |-> "", before |-> LssNew(d)]]

\* cache.push(version, value)
CachePush(version) ==
    /\ CacheRunning
    /\ \E o \in {LssPush(lss.c, version, NextValue)} :
           lss' = [c |-> o.c,
                   pushed |-> IF o.panic = "" THEN Put(lss.pushed, version, NextValue)
                              ELSE lss.pushed,
                   popped |-> lss.popped,
                   call |-> [op |-> "push", arg |-> version, some |-> FALSE, key |-> None,
                             value |-> NextValue, panic |-> o.panic, before |-> lss.c]]
    /\ UNCHANGED << trees, mode, undo, snap, ids, panic, calls, last, pc, fz >>

\* cache.pop_till_snapshot_lte(&k)
CachePop(k) ==
    /\ CacheRunning
    /\ \E o \in {LssPopTillSnapshotLte(lss.c, k)} :
           lss' = [c |-> o.c, pushed |-> PushedUnder(lss.pushed, o.c.keys),
                   popped |-> TRUE,
                   call |-> [op |-> "pop", arg |-> k, some |-> o.some, key |-> o.key,
                             value |-> IF o.some THEN o.value ELSE 0,
                             panic |-> o.panic, before |-> lss.c]]
    /\ UNCHANGED << trees, mode, undo, snap, ids, panic, calls, last, pc, fz >>

NextCache ==
    \/ \E version \in Versions : CachePush(version)
    \/ \E k \in Versions : CachePop(k)

\* Any pushes and pops on one cache.
SpecCache == InitCache /\ [][NextCache]_vars

\* test::snapshot and the doc example: for i in 0..n { cache.push(i, i) } on
\* a fresh cache, here with versions (i, 1), for every d up to MaxD.
MaxFill == 256

InitFill ==
    /\ NoReplicas
    /\ pc = "fill"
    /\ trees = None
    /\ \E d \in 1..MaxD :
           lss = [c |-> LssNew(d), pushed |-> << >>, popped |-> FALSE,
                  call |-> [op |-> "new", arg |-> None, some |-> FALSE, key |-> None,
                            value |-> 0, panic |-> "", before |-> LssNew(d)]]

\* cache.push(i, i) with i the number of pushes made
FillPush ==
    /\ pc = "fill" /\ lss.call.panic = ""
    /\ Len(lss.c.keys) < MaxFill
    /\ \E i \in {Len(lss.c.keys)} : \E o \in {LssPush(lss.c, << i, 1 >>, i)} :
           lss' = [c |-> o.c,
                   pushed |-> IF o.panic = "" THEN Put(lss.pushed, << i, 1 >>, i)
                              ELSE lss.pushed,
                   popped |-> FALSE,
                   call |-> [op |-> "push", arg |-> << i, 1 >>, some |-> FALSE,
                             key |-> None, value |-> i, panic |-> o.panic,
                             before |-> lss.c]]
    /\ UNCHANGED << trees, mode, undo, snap, ids, panic, calls, last, pc, fz >>

\* A fresh cache filled push by push.
SpecFill == InitFill /\ [][FillPush]_vars

\* ------------------------------------------------------------ properties
\* The set of operations a log holds.
OpsOfLog(log) == UNION {{log[c][i] : i \in 1..Len(log[c])} : c \in DOMAIN log}

\* The operations of a set in ascending ID order.
RECURSIVE Ascending(_)
Ascending(S) ==
    IF S = {} THEN << >>
    ELSE LET m == CHOOSE x \in S : \A y \in S : IdLeq(x.id, y.id)
         IN  << m >> \o Ascending(S \ {m})

\* A replay from scratch on the mutable forest: every operation of the log,
\* in ascending ID order, applied to an empty forest, cyclic moves skipped.
MutReplay(log) ==
    LET ops == Ascending(OpsOfLog(log))
    IN  UApplyFrom(EmptyForest, [i \in 1..Len(ops) |-> [op |-> ops[i], old_parent |-> None]], 1)

\* The same on the persistent forest.
TreeReplay(log) == SApplyFrom(EmptyForest, LssNew(D), Ascending(OpsOfLog(log)), 1)

\* The node reached from n by following k parent pointers (None past a root).
RECURSIVE Climb(_, _, _)
Climb(map, n, k) ==
    IF k = 0 THEN n
    ELSE IF n \notin DOMAIN map THEN None
    ELSE IF map[n].parent = None THEN None
    ELSE Climb(map, map[n].parent, k - 1)

\* No node reaches itself by following parent pointers one or more times.
Acyclic(map) ==
    \A n \in DOMAIN map : \A k \in 1..Cardinality(DOMAIN map) : Climb(map, n, k) # n

HasKind(log, kind) == \E op \in OpsOfLog(log) : op.kind = kind

FromBoth(log) == \A c \in Clients : c \in DOMAIN log

\* C1: undo variant, convergence: any two replicas whose logs hold the same
\* set of operations have equal forests.
C1_UndoConverge ==
    mode = "undo" =>
        \A r \in Replicas, s \in Replicas :
            OpsOfLog(undo[r].log) = OpsOfLog(undo[s].log) => undo[r].forest = undo[s].forest

\* Two replicas hold the same operations, issued by both clients and among
\* them a Move, after a merge that rewound the receiver.
C1_Witness ==
    /\ mode = "undo" /\ last.op = "merge" /\ last.u = "revert"
    /\ OpsOfLog(undo[1].log) = OpsOfLog(undo[2].log)
    /\ FromBoth(undo[1].log) /\ HasKind(undo[1].log, "Move")

\* C2: snapshot variant, convergence: any two replicas whose logs hold the
\* same set of operations have equal forests.
C2_SnapConverge ==
    mode = "snap" =>
        \A r \in Replicas, s \in Replicas :
            OpsOfLog(snap[r].log) = OpsOfLog(snap[s].log) => snap[r].forest = snap[s].forest

\* Two replicas hold the same operations, issued by both clients and among
\* them a Move, after a merge that restored a snapshot.
C2_Witness ==
    /\ mode = "snap" /\ last.op = "merge" /\ last.s = "some"
    /\ OpsOfLog(snap[1].log) = OpsOfLog(snap[2].log)
    /\ FromBoth(snap[1].log) /\ HasKind(snap[1].log, "Move")

\* C3: undo variant: every public call returns, and afterwards the forest of
\* every replica equals a replay from scratch of its log in ascending ID order.
C3_UndoReplay ==
    mode = "undo" =>
        /\ panic.u = ""
        /\ \A r \in Replicas :
              /\ MutReplay(undo[r].log).panic = ""
              /\ MutReplay(undo[r].log).forest = undo[r].forest

\* A merge that undid operations, a Move and a Delete among the receiver's.
C3_Witness ==
    /\ mode = "undo" /\ last.op = "merge" /\ last.u = "revert"
    /\ HasKind(undo[last.a].log, "Move") /\ HasKind(undo[last.a].log, "Delete")

\* C4: snapshot variant: the forest of every replica equals a replay from
\* scratch of its log in ascending ID order, after a merge that restored a
\* snapshot as after one that found none.
C4_SnapReplay ==
    mode = "snap" =>
        \A r \in Replicas :
            /\ TreeReplay(snap[r].log).panic = ""
            /\ TreeReplay(snap[r].log).forest = snap[r].forest

\* An exchange whose first merge found no snapshot and replayed the whole log
\* over the receiver's forest, and whose second merge restored a snapshot.
C4_Witness ==
    /\ mode = "snap" /\ last.op = "exchange" /\ Running
    /\ last.s = "none" /\ last.s2 = "some"
    /\ HasKind(snap[last.a].log, "Move")

\* C5: cross-variant equivalence: a snapshot-variant replica and an
\* undo-variant replica holding the same set of operations have the same
\* forest (same parent and deleted flag for every node).
C5_CrossEquivalent ==
    mode = "both" =>
        \A r \in Replicas, s \in Replicas :
            OpsOfLog(snap[r].log) = OpsOfLog(undo[s].log) => snap[r].forest = undo[s].forest

\* C6: pair merge: right after a.merge(&b); b.merge(&a) both calls have
\* returned, the two replicas hold identical per-client logs and equal forests.
C6_PairMerge ==
    last.op = "exchange" =>
        /\ Running
        /\ mode = "undo" => /\ undo[last.a].log = undo[last.b].log
                            /\ undo[last.a].forest = undo[last.b].forest
        /\ mode = "snap" => /\ snap[last.a].log = snap[last.b].log
                            /\ snap[last.a].forest = snap[last.b].forest

\* An exchange in which each side received operations from the other, a Move
\* among them.
C6_Witness ==
    /\ last.op = "exchange" /\ mode = "undo"
    /\ last.u \in {"revert", "append"} /\ last.u2 \in {"revert", "append"}
    /\ HasKind(undo[last.a].log, "Move")

\* C8: merge idempotence: right after a.merge(&b) a second a.merge(&b)
\* returns with the complete state of a as the first left it.
C8_MergeIdempotent ==
    (last.op = "merge" /\ Running) =>
        /\ mode = "undo" => /\ UMerge(undo[last.a], undo[last.b]).panic = ""
                            /\ UMerge(undo[last.a], undo[last.b]).st = undo[last.a]
        /\ mode = "snap" => /\ SMerge(snap[last.a], snap[last.b]).panic = ""
                            /\ SMerge(snap[last.a], snap[last.b]).st = snap[last.a]

\* A merge that restored a snapshot and replayed operations.
C8_Witness ==
    /\ mode = "snap" /\ last.op = "merge" /\ Running /\ last.s = "some"
    /\ Len(snap[last.a].sorted_ops) >= 3

\* The live variant's forests.
Forests == IF mode = "undo" THEN [r \in Replicas |-> undo[r].forest]
           ELSE [r \in Replicas |-> snap[r].forest]

AllEqual == \A r \in Replicas, s \in Replicas : Forests[r] = Forests[s]

\* The final loop has been run n times or more, and stands between two runs.
PassesDone(n) == pc \in {"final", "done"} /\ fz.j = FirstPair /\ fz.pass >= n

\* C7 (as stated): fuzz scenario, after the final loop has run twice the
\* forests of all four replicas are equal.
C7_TwoPasses == PassesDone(2) => AllEqual

\* C7 (amended): fuzz scenario, after the final loop has run N_ACTORS - 1 = 3
\* times the forests of all four replicas are equal.
C7_ThreePasses == PassesDone(N_ACTORS - 1) => AllEqual

\* Three runs of the final loop carried a Move issued by the last actor to
\* actor 0.
C7_Witness ==
    /\ PassesDone(N_ACTORS - 1) /\ Running /\ mode = "undo"
    /\ \E op \in OpsOfLog(undo[0].log) : op.kind = "Move" /\ op.id[2] = N_ACTORS - 1
    /\ \E n \in DOMAIN undo[0].forest : undo[0].forest[n].parent # None

\* Everything in b's log is in a's log.
NothingNew(alog, blog) == OpsOfLog(blog) \subseteq OpsOfLog(alog)

\* C9: a merge from a replica whose log holds no operation the receiver lacks
\* (a copy of the receiver included) returns and changes nothing.
C9_EmptyDeltaNoOp ==
    [][(/\ last'.op = "merge"
        /\ \/ mode = "undo" /\ NothingNew(undo[last'.a].log, undo[last'.b].log)
           \/ mode = "snap" /\ NothingNew(snap[last'.a].log, snap[last'.b].log))
       => (undo' = undo /\ snap' = snap /\ panic' = panic)]_vars

\* A merge from another replica, whose log is not empty, brought nothing new.
C9_Witness ==
    /\ last.op = "merge" /\ last.a # last.b /\ mode = "snap" /\ last.s = "empty"
    /\ OpsOfLog(snap[last.b].log) # {}
    /\ snap[last.a].cache.keys # << >>

\* C10: acyclicity: in both variants the parent pointers of every replica's
\* forest form no cycle.
C10_Acyclic ==
    \A r \in Replicas : Acyclic(undo[r].forest) /\ Acyclic(snap[r].forest)

\* A replica whose log holds a Move of y under x while its forest has x
\* under y: the Move would have closed a cycle and was dropped.
C10_Witness ==
    \E r \in Replicas : \E op \in OpsOfLog(undo[r].log) :
        /\ op.kind = "Move" /\ op.parent # None /\ op.parent # op.target
        /\ op.parent \in DOMAIN undo[r].forest
        /\ undo[r].forest[op.parent].parent = op.target

\* a is n or is reached from n by following parent pointers.
Above(map, a, n) ==
    a = n \/ \E k \in 1..Cardinality(DOMAIN map) : Climb(map, n, k) = a

\* What the contract of mov(node, Some(parent)) with an existing parent
\* allows: a CyclicMove error and an untouched map when node exists and is
\* parent or above it, else Ok and node's parent set to parent.
MovContract(before, after, res, node, parent) ==
    IF node \in DOMAIN before /\ Above(before, node, parent)
    THEN res = "err" /\ after = before
    ELSE res = "ok" /\ node \in DOMAIN after /\ after[node].parent = parent

\* The last call was mov(node, Some(parent)) with parent in both Forests.
MovedUnder ==
    /\ trees.call.op = "mov"
    /\ trees.call.parent # None
    /\ trees.call.parent \in DOMAIN trees.call.mbefore
    /\ trees.call.parent \in DOMAIN trees.call.tbefore

\* C11: Forest.mov(node, Some(parent)) with an existing parent, in mut_tree.rs
\* and in tree.rs: when node exists and is parent or a transitive ancestor of
\* parent the call returns the CyclicMove error and the map is as before;
\* in every other case it returns Ok and node's parent is parent.
C11_MovContract ==
    MovedUnder =>
        /\ MovContract(trees.call.mbefore, trees.mut, trees.call.mres,
                       trees.call.node, trees.call.parent)
        /\ MovContract(trees.call.tbefore, trees.tree, trees.call.tres,
                       trees.call.node, trees.call.parent)

\* A move of a node under its grandchild was refused by both Forests.
C11_Witness ==
    /\ MovedUnder
    /\ trees.call.node \in DOMAIN trees.call.mbefore
    /\ trees.call.node # trees.call.parent
    /\ Climb(trees.call.mbefore, trees.call.parent, 2) = trees.call.node
    /\ Climb(trees.call.tbefore, trees.call.parent, 2) = trees.call.node
    /\ trees.call.mres = "err" /\ trees.call.tres = "err"

\* A mov that returned leaves the deleted flag of a node it found as it was.
FlagKept(before, after, res, node) ==
    (res \in {"ok", "err"} /\ node \in DOMAIN before) =>
        after[node].deleted = before[node].deleted

\* C20: Forest.mov on a node that already exists never changes the node's
\* deleted flag, in the mutable and in the persistent Forest, a move to the
\* root (parent None) included.
C20_DeletedKept ==
    trees.call.op = "mov" =>
        /\ FlagKept(trees.call.mbefore, trees.mut, trees.call.mres, trees.call.node)
        /\ FlagKept(trees.call.tbefore, trees.tree, trees.call.tres, trees.call.node)

\* The last entry of client r's own list in a log holds op.
OwnLast(log, r, op) ==
    r \in DOMAIN log /\ Len(log[r]) > 0 /\ log[r][Len(log[r])] = op

\* r.mov(t, ph) on the undo-variant replica returned, left the forest as it
\* was and put its Move at the end of r's own log and among sorted_ops.
UMovSwallowed(r, t, ph) ==
    /\ panic'.u = ""
    /\ undo'[r].forest = undo[r].forest
    /\ OwnLast(undo'[r].log, r, OpMove(UNewId(undo[r], r), UId(t), UId(ph)))
    /\ \E i \in 1..Len(undo'[r].sorted_ops) :
           undo'[r].sorted_ops[i].op = OpMove(UNewId(undo[r], r), UId(t), UId(ph))

\* The same on the snapshot-variant replica.
SMovSwallowed(r, t, ph) ==
    /\ panic'.s = ""
    /\ snap'[r].forest = snap[r].forest
    /\ OwnLast(snap'[r].log, r, OpMove(SNewId(snap[r], r), SId(t), SId(ph)))
    /\ \E i \in 1..Len(snap'[r].sorted_ops) :
           snap'[r].sorted_ops[i] = OpMove(SNewId(snap[r], r), SId(t), SId(ph))

\* a.merge(&b) returned: a holds every op b held, in its log and among its
\* sorted_ops, and a's forest is the replay of its log in ID order with the
\* cyclic moves dropped.
UDelivered(a, b) ==
    panic'.u = "" =>
        /\ OpsOfLog(undo[b].log) \subseteq OpsOfLog(undo'[a].log)
        /\ OpsOfLog(undo[b].log) \subseteq
               {undo'[a].sorted_ops[i].op : i \in 1..Len(undo'[a].sorted_ops)}
        /\ undo'[a].forest = MutReplay(undo'[a].log).forest

SDelivered(a, b) ==
    panic'.s = "" =>
        /\ OpsOfLog(snap[b].log) \subseteq OpsOfLog(snap'[a].log)
        /\ OpsOfLog(snap[b].log) \subseteq
               {snap'[a].sorted_ops[i] : i \in 1..Len(snap'[a].sorted_ops)}
        /\ snap'[a].forest = TreeReplay(snap'[a].log).forest

\* Every cycle-closing r.mov(t, ph) is swallowed and every merge delivers.
SwallowedStep ==
    /\ \A r \in Clients, t \in 1..MaxNodes, ph \in 1..MaxNodes :
           Mov(r, t, ph) =>
               /\ (ULive /\ Above(undo[r].forest, UId(t), UId(ph))) => UMovSwallowed(r, t, ph)
               /\ (SLive /\ Above(snap[r].forest, SId(t), SId(ph))) => SMovSwallowed(r, t, ph)
    /\ \A a \in Clients, b \in Clients :
           Merge(a, b) => /\ ULive => UDelivered(a, b)
                          /\ SLive => SDelivered(a, b)

\* C12: a mov(target, parent) that would close a cycle does not fail and
\* leaves forest() as it was, yet its Move is appended to the replica's log
\* and sorted_ops; a later merge delivers it to the other replica, which
\* applies it in ID order and drops it if it is still cyclic.
C12_Swallowed == [][SwallowedStep]_vars

\* The operations each replica of the variant driven holds.
Held == IF mode = "undo" THEN [r \in Replicas |-> OpsOfLog(undo[r].log)]
        ELSE [r \in Replicas |-> OpsOfLog(snap[r].log)]

MovesOf(S) == {op \in S : op.kind = "Move"}

\* The forest the New operations of S alone describe.
NewForest(S) ==
    [n \in {op.id : op \in {o \in S : o.kind = "New"}} |->
        [parent |-> (CHOOSE o \in S : o.kind = "New" /\ o.id = n).parent,
         deleted |-> FALSE]]

\* Replicas a and b have merged each other and hold exactly two Moves, m1 of
\* one client and m2 of another, m1 with the smaller ID, on nodes both know.
TwoMoves(a, b, m1, m2) ==
    /\ a # b /\ Held[a] = Held[b]
    /\ MovesOf(Held[a]) = {m1, m2}
    /\ m1.id[2] # m2.id[2] /\ IdLess(m1.id, m2.id)
    /\ {m1.target, m2.target} \subseteq DOMAIN NewForest(Held[a])
    /\ m1.parent # None /\ m2.parent # None

\* m1 moves x under y and m2 moves y under x.
Crossing(m1, m2) ==
    m1.target # m1.parent /\ m2.target = m1.parent /\ m2.parent = m1.target

\* Neither node was created above the other.
Apart(S, x, y) == ~Above(NewForest(S), x, y) /\ ~Above(NewForest(S), y, x)

\* Only the smaller Move's edge exists on r: m1's target is under m1's
\* parent, and m2's target is where its New put it.
SmallerWon(r, m1, m2) ==
    /\ Forests[r][m1.target].parent = m1.parent
    /\ Forests[r][m2.target].parent = NewForest(Held[r])[m2.target].parent

\* The step is a.merge(&b); b.merge(&a), both returned, and before it the
\* only Moves the two replicas held were m1 and m2, m1 with the smaller ID,
\* each issued by one of the two and unknown to the other, on nodes both knew.
ConcurrentMoves(a, b, m1, m2) ==
    /\ last'.op = "exchange" /\ last'.a = a /\ last'.b = b /\ Running'
    /\ MovesOf(Held[a] \cup Held[b]) = {m1, m2}
    /\ IdLess(m1.id, m2.id)
    /\ \/ m1.id[2] = a /\ m1 \notin Held[b] /\ m2.id[2] = b /\ m2 \notin Held[a]
       \/ m1.id[2] = b /\ m1 \notin Held[a] /\ m2.id[2] = a /\ m2 \notin Held[b]
    /\ {m1.target, m2.target} \subseteq (DOMAIN Forests[a]) \cap (DOMAIN Forests[b])

\* C13 as stated: for any two nodes both replicas know, after Move(x under y)
\* by one replica and, concurrently, Move(y under x) by another and a merge
\* each way, both forests hold only the edge of the Move with the smaller ID.
C13_SmallerWinsAnyNodes ==
    [][\A a \in Clients, b \in Clients :
       \A m1 \in Held[a] \cup Held[b], m2 \in Held[a] \cup Held[b] :
          (ConcurrentMoves(a, b, m1, m2) /\ Crossing(m1, m2)) =>
              (SmallerWon(a, m1, m2) /\ SmallerWon(b, m1, m2))']_vars

\* C13: conflicting concurrent moves: one replica issues Move(x under y) and
\* another, concurrently, Move(y under x), neither node created above the
\* other; after the two replicas have merged each other both forests hold
\* only the edge of the Move with the smaller ID, and the Move with the
\* greater ID has no effect.
C13_SmallerWins ==
    [][\A a \in Clients, b \in Clients :
       \A m1 \in Held[a] \cup Held[b], m2 \in Held[a] \cup Held[b] :
          (ConcurrentMoves(a, b, m1, m2) /\ Crossing(m1, m2)
              /\ Apart(Held[a], m1.target, m1.parent)) =>
              (SmallerWon(a, m1, m2) /\ SmallerWon(b, m1, m2))']_vars

\* Two undo-variant replicas hold Move(x under y) and Move(y under x) of equal
\* lamport (neither issuer had seen the other's Move), on two roots, after an
\* exchange.
C13_Witness ==
    /\ mode = "undo" /\ last.op = "exchange"
    /\ \E m1 \in Held[last.a], m2 \in Held[last.a] :
        /\ TwoMoves(last.a, last.b, m1, m2) /\ Crossing(m1, m2)
        /\ Apart(Held[last.a], m1.target, m1.parent)
        /\ m1.id[1] = m2.id[1]
        /\ SmallerWon(last.a, m1, m2)

\* m1 and m2 move the same node to two different parents (None is the root),
\* neither of them the node or below it in the forest of the New operations.
SameTarget(S, m1, m2) ==
    /\ m1.target = m2.target /\ m1.parent # m2.parent
    /\ \A p \in {m1.parent, m2.parent} \ {None} :
           p \in DOMAIN NewForest(S) /\ ~Above(NewForest(S), m1.target, p)

\* On r the node is under the parent the Move m names, and no cycle exists.
MoveWon(r, m) == Forests[r][m.target].parent = m.parent /\ Acyclic(Forests[r])

\* C14: concurrent moves of the same node: two replicas concurrently move the
\* same target x to two different parents, neither x nor a descendant of x;
\* after a merge each way x's parent on both replicas is the parent named by
\* the Move with the greater ID, and both forests are free of cycles.
C14_GreaterWins ==
    [][\A a \in Clients, b \in Clients :
       \A m1 \in Held[a] \cup Held[b], m2 \in Held[a] \cup Held[b] :
          (ConcurrentMoves(a, b, m1, m2) /\ SameTarget(Held[a] \cup Held[b], m1, m2)) =>
              (MoveWon(a, m2) /\ MoveWon(b, m2))']_vars

\* After an exchange two undo-variant replicas hold two Moves of one node, of
\* equal lamport (neither issuer had seen the other's Move), to two different
\* nodes, and the node is under the parent of the greater Move.
C14_Witness ==
    /\ mode = "undo" /\ last.op = "exchange" /\ Running
    /\ Held[last.a] = Held[last.b]
    /\ \E m1 \in Held[last.a], m2 \in Held[last.a] :
        /\ MovesOf(Held[last.a]) = {m1, m2}
        /\ m1.id[1] = m2.id[1] /\ IdLess(m1.id, m2.id)
        /\ SameTarget(Held[last.a], m1, m2)
        /\ m1.parent # None /\ m2.parent # None
        /\ MoveWon(last.a, m2) /\ MoveWon(last.b, m2)

\* The ID new_id hands out on replica r at its next local call.
NextId(r) == IF mode = "undo" THEN UNewId(undo[r], r) ELSE SNewId(snap[r], r)

\* The operations of other clients that replica r holds: each was received
\* in a merge.
Received(r) == {op \in Held[r] : op.id[2] # r}

\* The step is a local call (new_node, mov or delete) on replica r.
LocalCall(r) == last'.op \in {"new_node", "mov", "delete"} /\ last'.a = r

\* C15: Lamport bump: in both variants the ID of every op a replica issues
\* locally after a merge is strictly greater than the ID of every op it
\* received in that merge, whichever of the two client ids is the greater.
C15_BumpExceeds ==
    [][\A r \in Clients :
          LocalCall(r) => \A op \in Received(r) : IdLess(op.id, NextId(r))]_vars

\* The IDs of the operations any replica holds, and the nodes of any forest.
IssuedIds == UNION {{op.id : op \in Held[r]} : r \in Replicas}

NodeIds == UNION {DOMAIN Forests[r] : r \in Replicas}

\* C16: ID uniqueness: with pairwise distinct client ids, in both variants,
\* the ID a local call (new_node, mov or delete) issues is carried by no
\* operation issued before it anywhere, and names no node of any forest.
C16_FreshIds ==
    [][\A r \in Clients :
          LocalCall(r) => NextId(r) \notin IssuedIds /\ NextId(r) \notin NodeIds]_vars

\* A new_node has just returned on a replica that holds an operation of
\* another client and a node of its own whose IDs have the same lamport.
C16_Witness ==
    /\ last.op = "new_node" /\ Running
    /\ \E op \in Received(last.a) : \E n \in DOMAIN Forests[last.a] :
           n[2] = last.a /\ n[1] = op.id[1] /\ n \notin {o.id : o \in Received(last.a)}

\* The positions of the snapshots a cache holds whose version is at most k.
HeldUpTo(c, k) == {p \in DOMAIN c.cache : IdLeq(c.keys[p + 1], k)}

\* The greatest version among the snapshots at the positions P of cache c.
GreatestVersion(c, P) ==
    c.keys[(CHOOSE p \in P : \A q \in P : q <= p) + 1]

\* No key and no snapshot of c has a version above v.
NothingAbove(c, v) ==
    /\ \A i \in 1..Len(c.keys) : IdLeq(c.keys[i], v)
    /\ \A p \in DOMAIN c.cache : p + 1 <= Len(c.keys) /\ IdLeq(c.keys[p + 1], v)

\* C17: pop_till_snapshot_lte(k), after any pushes and pops, returns the held
\* snapshot of the greatest version <= k with the value pushed under that
\* version, and None exactly when no held snapshot has a version <= k (an
\* empty cache stays empty); afterwards no key or snapshot of a greater
\* version than the returned one remains.
C17_PopGreatestLte ==
    lss.call.op = "pop" =>
        /\ lss.call.panic = ""
        /\ lss.call.some <=> HeldUpTo(lss.call.before, lss.call.arg) # {}
        /\ lss.call.some =>
               /\ lss.call.key = GreatestVersion(lss.call.before,
                                                 HeldUpTo(lss.call.before, lss.call.arg))
               /\ lss.call.value = lss.pushed[lss.call.key]
               /\ NothingAbove(lss.c, lss.call.key)
        /\ lss.call.before.keys = << >> => lss.c = lss.call.before

\* A pop on a thinned cache, for a version that is no key, returned an older
\* snapshot than the newest one below k that was pushed, and dropped keys.
C17_Witness ==
    /\ lss.call.op = "pop" /\ lss.call.some
    /\ lss.call.key # lss.call.arg
    /\ \E i \in 1..Len(lss.call.before.keys) :
           /\ IdLess(lss.call.key, lss.call.before.keys[i])
           /\ IdLess(lss.call.before.keys[i], lss.call.arg)
    /\ Len(lss.c.keys) < Len(lss.call.before.keys)

\* The bit length of n: ceil(log2(n + 1)).
RECURSIVE BitLen(_)
BitLen(n) == IF n = 0 THEN 0 ELSE 1 + BitLen(n \div 2)

\* cache_size()
CacheSize(c) == Cardinality(DOMAIN c.cache)

\* C18: retention bound: for every d >= 1 and n >= 1, after n pushes into a
\* fresh cache with parameter d, cache_size() is at most 2^d times the bit
\* length of n, and the most recently pushed version is among the snapshots
\* held.
C18_RetentionBound ==
    (lss.call.op = "push" /\ lss.call.panic = "" /\ ~lss.popped) =>
        /\ CacheSize(lss.c) <= Pow2(lss.c.d) * BitLen(Len(lss.c.keys))
        /\ (Len(lss.c.keys) - 1) \in DOMAIN lss.c.cache
        /\ lss.c.keys[Len(lss.c.keys)] = lss.call.arg

\* MaxFill pushes were made and fewer than half of the snapshots are held.
C18_Witness ==
    /\ lss.call.op = "push" /\ ~lss.popped
    /\ Len(lss.c.keys) = MaxFill
    /\ 2 * CacheSize(lss.c) < MaxFill

\* The cache held a key and version is not strictly above its last key.
OutOfOrder(c, version) ==
    c.keys # << >> /\ ~IdLess(c.keys[Len(c.keys)], version)

\* C19: push(version, value) panics whenever the cache already holds a key
\* and version is not strictly greater than the last key, equal versions
\* included; when it does not panic, keys stays strictly increasing.
C19_PushOrder ==
    lss.call.op = "push" =>
        /\ OutOfOrder(lss.call.before, lss.call.arg) => lss.call.panic = "push_order"
        /\ lss.call.panic = "" =>
               /\ SortedIds(lss.c.keys)
               /\ lss.c.keys = Append(lss.call.before.keys, lss.call.arg)

\* A push of the version the cache's last key already has panicked.
C19_Witness ==
    /\ lss.call.op = "push" /\ lss.call.panic = "push_order"
    /\ Len(lss.call.before.keys) > 1
    /\ lss.call.arg = lss.call.before.keys[Len(lss.call.before.keys)]

\* Every parent a node of the map names is a node of the map.
ParentsExist(map) ==
    \A n \in DOMAIN map : map[n].parent # None => map[n].parent \in DOMAIN map

\* C21: parent existence: in both variants, after every public operation,
\* every node of forest() whose parent is Some(p) has p as a key of the map.
C21_ParentsExist ==
    \A r \in Replicas : ParentsExist(undo[r].forest) /\ ParentsExist(snap[r].forest)

\* A replica received, in a merge, a node created under a parent that was
\* deleted afterwards: the child still names the deleted parent.
C21_Witness ==
    /\ last.op \in {"merge", "exchange"} /\ Running
    /\ \E n \in DOMAIN Forests[last.a] :
           /\ n[2] # last.a
           /\ Forests[last.a][n].parent # None
           /\ Forests[last.a][Forests[last.a][n].parent].deleted

\* C22: crate-root Forest (lib.rs): every mov(node, Some(parent)) that would
\* create a cycle, a move of an existing node under itself included, returns
\* Err(CyclicMoveErr); the forest never holds a cycle, and the parent walk of
\* is_ancestor_of terminates on every later call.
C22_LibNoCycle ==
    /\ Acyclic(trees.lib.map)
    /\ trees.call.res # "hang"
    /\ (/\ trees.call.op = "mov" /\ trees.call.parent # None
        /\ {trees.call.node, trees.call.parent} \subseteq DOMAIN trees.call.before.map
        /\ Above(trees.call.before.map, trees.call.node, trees.call.parent))
           => trees.call.res = "err" /\ trees.lib = trees.call.before

\* The IDs of replica r's sorted_ops, in their order, and its applied_end.
SortedOpsIds(r) ==
    IF mode = "undo" THEN UIdsOf(undo[r].sorted_ops) ELSE SIdsOf(snap[r].sorted_ops)

AppliedEnd(r) == IF mode = "undo" THEN undo[r].applied_end ELSE snap[r].applied_end

\* sorted_ops of every replica is strictly ascending and wholly applied.
SortedAndApplied ==
    \A r \in Replicas :
        SortedIds(SortedOpsIds(r)) /\ AppliedEnd(r) = Len(SortedOpsIds(r))

\* A local call on r returns, and the operation it issues has an ID above
\* that of every operation r already holds: push_op's append keeps the order.
AppendedLast(r) ==
    /\ Running'
    /\ \A op \in Held[r] : IdLess(op.id, NextId(r))

\* C23: sorted log: in both variants, after every public operation (a local
\* new_node, mov or delete that follows a merge in particular) sorted_ops is
\* strictly ascending by ID and applied_end equals its length; an operation
\* generated locally is appended after every operation already known.
C23_SortedLog ==
    [][/\ SortedAndApplied'
       /\ \A r \in Clients : LocalCall(r) => AppendedLast(r)]_vars

\* The same statement on the undo variant alone.
C23_SortedLogUndo ==
    [][mode = "undo" =>
          /\ SortedAndApplied'
          /\ \A r \in Clients : LocalCall(r) => AppendedLast(r)]_vars

\* The operations of replica r's sorted_ops, in their order.
SortedOpsOf(r) ==
    IF mode = "undo" THEN UOpsOf(undo[r].sorted_ops) ELSE snap[r].sorted_ops

\* The New operation creating node n sits below position i of ops.
CreatedBefore(ops, i, n) ==
    \E j \in 1..(i - 1) : ops[j].kind = "New" /\ ops[j].id = n

\* Every reference of ops (a Move's or Delete's target, a Some parent) comes
\* after the New operation of the node it names.
CreationFirst(ops) ==
    \A i \in 1..Len(ops) :
        /\ ops[i].kind \in {"Move", "Delete"} => CreatedBefore(ops, i, ops[i].target)
        /\ ops[i].parent # None => CreatedBefore(ops, i, ops[i].parent)

\* C24: creation precedes reference: in both variants, with local calls that
\* only reference nodes of the issuing replica's forest, every Move or Delete
\* (and every New or Move under a Some parent) of every replica's sorted_ops
\* comes after the New operation of the node it references, and no forest
\* call of apply_pending_ops panics on a missing target or parent.
C24_CreationFirst ==
    /\ \A r \in Replicas : CreationFirst(SortedOpsOf(r))
    /\ panic.u # "panic" /\ panic.s # "panic"

\* A replica that received, in a merge, an operation of one client on a node
\* that another client created.
C24_Witness ==
    /\ last.op \in {"merge", "exchange"} /\ Running
    /\ \E i \in 1..Len(SortedOpsOf(last.a)) :
           /\ SortedOpsOf(last.a)[i].kind \in {"Move", "Delete"}
           /\ SortedOpsOf(last.a)[i].id[2] # last.a
           /\ SortedOpsOf(last.a)[i].target[2] # SortedOpsOf(last.a)[i].id[2]

\* C25: snapshot variant, push order: every snapshot apply_pending_ops pushes
\* has a key strictly greater than the cache's last key, so the order
\* assertion of LogSpacedSnapshots::push fires in no new_node, mov, delete or
\* merge of replicas with distinct client ids whose local calls reference
\* known nodes.
C25_PushInOrder == panic.s # "push_order"

\* The forest a replay of the operation tuples from an empty forest builds.
PrefixForest(tuples) ==
    UApplyFrom(EmptyForest,
               [i \in 1..Len(tuples) |-> [op |-> tuples[i].op, old_parent |-> None]],
               1).forest

\* The nodes whose New operation is among the operation tuples.
CreatedIn(tuples) ==
    {tuples[i].op.id : i \in {j \in 1..Len(tuples) : tuples[j].op.kind = "New"}}

\* Forests f and g have every node of S, with the same parent and flag.
AgreeOn(S, f, g) == \A n \in S : n \in DOMAIN f /\ n \in DOMAIN g /\ f[n] = g[n]

\* What revert_until returned, rv, is the state of its kept prefix.
RewoundTo(rv) ==
    rv.panic = "" =>
        AgreeOn(CreatedIn(rv.st.sorted_ops), rv.st.forest, PrefixForest(rv.st.sorted_ops))

\* The revert_until call of c.merge(other), where the merge makes one.
MergeRewinds(c, other) ==
    LET Diffed(ans) == ans = << >> \/ RewoundTo(URevertUntil(c, MinOp(ans).id))
    IN  Diffed(Incoming(c.log, other.log, DOMAIN other.log))

\* The step is a.merge(b), alone or as the first merge of an exchange.
MergeCall(a, b) == last'.op \in {"merge", "exchange"} /\ last'.a = a /\ last'.b = b

\* C26: undo rewind restores the earlier state: in the undo variant, right
\* after revert_until(id) returns and before the replay, every node whose New
\* operation is still in sorted_ops has the parent and the deleted flag it has
\* in the forest built by applying the remaining sorted_ops to an empty
\* forest, also when the reverted suffix holds a swallowed Move or a Delete
\* of a node an earlier, kept Delete had deleted.
C26_RewindRestores ==
    [][\A a \in Clients, b \in Clients :
          (mode = "undo" /\ MergeCall(a, b)) => MergeRewinds(undo[a], undo[b])]_vars

\* The operations of ops with an ID at or below k, in their order.
OpsUpTo(ops, k) == SelectSeq(ops, LAMBDA op : IdLeq(op.id, k))

\* The forest the operations of ops with an ID at or below k build from an
\* empty forest.
ForestAt(ops, k) == SApplyFrom(EmptyForest, LssNew(D), OpsUpTo(ops, k), 1).forest

\* Every snapshot the cache of replica state c holds is the forest at its key.
TrueSnapshots(c) ==
    \A p \in DOMAIN c.cache.cache :
        c.cache.cache[p] = ForestAt(c.sorted_ops, c.cache.keys[p + 1])

\* C27: snapshots are point-in-time copies: in the snapshot variant every
\* snapshot the cache holds under a key k equals the forest built by applying
\* to an empty forest the operations of sorted_ops with an ID at or below k,
\* the snapshots pushed by a merge that found no usable snapshot and replayed
\* the whole log included.
C27_TrueSnapshots == \A r \in Replicas : TrueSnapshots(snap[r])

\* The least incoming ID of c.merge(other), where there is one, is the ID of
\* no operation of c's sorted_ops.
FreshStart(c, other) ==
    LET Diffed(ans) ==
            ans = << >> \/
            \A i \in 1..Len(c.sorted_ops) : c.sorted_ops[i].op.id # MinOp(ans).id
    IN  Diffed(Incoming(c.log, other.log, DOMAIN other.log))

\* C28: undo variant: in every merge of replicas with distinct client ids the
\* least incoming ID, the one passed to revert_until, is the ID of no
\* operation already in the receiver's sorted_ops, and the unreachable!()
\* branch of revert_until is never executed.
C28_FreshStart ==
    [][\A a \in Clients, b \in Clients :
          (mode = "undo" /\ MergeCall(a, b)) =>
              FreshStart(undo[a], undo[b]) /\ panic.u' # "unreachable"]_vars

\* A merge whose revert_until searched a log that held operations below and
\* above the least incoming ID.
C28_Witness ==
    /\ mode = "undo" /\ last.op = "merge" /\ last.u = "revert" /\ Running
    /\ undo[last.a].sorted_ops[1].op.id[2] = last.a
    /\ undo[last.a].sorted_ops[Len(undo[last.a].sorted_ops)].op.id[2] = last.a

\* A fresh cache with parameter d after n pushes of ascending versions.
RECURSIVE FreshFill(_, _)
FreshFill(c, n) ==
    IF Len(c.keys) >= n THEN c
    ELSE FreshFill(LssPush(c, << Len(c.keys), 1 >>, 0).c, n)

\* The positions such a cache holds a snapshot at.
FreshPositions(d, n) == DOMAIN FreshFill(LssNew(d), n).cache

\* C29: LogSpacedSnapshots after rewinds: after any interleaving of push and
\* pop_till_snapshot_lte calls the positions that still hold a snapshot are
\* among those a fresh, never popped cache with the same d holds after
\* len(keys) pushes, and the retention bound holds after pops as well.
C29_HeldAsFresh ==
    lss.call.panic = "" =>
        /\ DOMAIN lss.c.cache \subseteq FreshPositions(lss.c.d, Len(lss.c.keys))
        /\ CacheSize(lss.c) <= Pow2(lss.c.d) * BitLen(Len(lss.c.keys))

\* A push after a pop, on a cache that holds fewer snapshots than a fresh
\* cache of its length does.
C29_Witness ==
    /\ lss.call.op = "push" /\ lss.call.panic = "" /\ lss.popped
    /\ DOMAIN lss.c.cache # FreshPositions(lss.c.d, Len(lss.c.keys))
    /\ CacheSize(lss.c) >= 2

\* Sequence s is a prefix of sequence t.
IsPrefix(s, t) == Len(s) <= Len(t) /\ SubSeq(t, 1, Len(s)) = s

\* The lamports of a client's log strictly increase.
LamportsIncrease(ops) == \A i \in 1..(Len(ops) - 1) : ops[i].id[1] < ops[i + 1].id[1]

\* The log of every replica of the live variant.
Logs == IF mode = "undo" THEN [r \in Replicas |-> undo[r].log]
        ELSE [r \in Replicas |-> snap[r].log]

\* Every per-client log a replica holds is a prefix of the log the replica
\* of that client holds for itself, in ascending lamport order.
PrefixLogs(logs) ==
    \A r \in DOMAIN logs : \A c \in DOMAIN logs[r] :
        /\ c \in DOMAIN logs /\ c \in DOMAIN logs[c]
        /\ IsPrefix(logs[r][c], logs[c][c])
        /\ LamportsIncrease(logs[r][c])

\* From logs to later, every per-client log only grew at its end.
AppendOnly(logs, later) ==
    \A r \in DOMAIN logs : \A c \in DOMAIN logs[r] :
        c \in DOMAIN later[r] /\ IsPrefix(logs[r][c], later[r][c])

\* C30: per-client log prefix consistency: for every replica r and client c,
\* r.log[c] is at all times a prefix of the log replica c holds for itself,
\* with strictly increasing lamports, and it only grows by appending, so the
\* length-based diff of merge skips, duplicates or reorders no operation,
\* whatever chain of replicas relayed it.
C30_PrefixLogs ==
    [][PrefixLogs(Logs') /\ AppendOnly(Logs, Logs')]_vars

\* The one action of the list was a call on the last actor, and the actor
\* next to actor 0 holds its operation: the final loop's exchanges of adjacent
\* actors relayed it.
C30_Witness ==
    /\ pc \in {"final", "done"} /\ Running /\ fz.acts = 1
    /\ (N_ACTORS - 1) \in DOMAIN Logs[1]
    /\ Logs[1][N_ACTORS - 1] = Logs[N_ACTORS - 1][N_ACTORS - 1]

\* The Delete operations replica r holds in its log.
DeletesOf(r) == {op \in OpsOfLog(undo[r].log) : op.kind = "Delete"}

\* C31: deletion is permanent in the undo variant: once a Delete(x) is in a
\* replica's log, x is marked deleted in forest() at the end of every later
\* public operation on that replica, local call or merge, also when a merge
\* rewinds that Delete with undo_delete and when x was deleted more than once.
C31_DeletedStays ==
    \A r \in Replicas : \A op \in DeletesOf(r) :
        op.target \in DOMAIN undo[r].forest /\ undo[r].forest[op.target].deleted

\* A merge that rewound operations of the receiver, the last of them the
\* receiver's second Delete of a node.
C31_Witness ==
    /\ mode = "undo" /\ last.op = "merge" /\ last.u = "revert" /\ Running
    /\ \E d1 \in DeletesOf(last.a), d2 \in DeletesOf(last.a) :
           /\ d1.target = d2.target /\ IdLess(d1.id, d2.id)
           /\ d2.id[2] = last.a
           /\ undo[last.a].sorted_ops[Len(undo[last.a].sorted_ops)].op = d2

\* The keys of replica state c's cache are the IDs of its sorted_ops.
KeysAligned(c) == c.cache.keys = SIdsOf(c.sorted_ops)

\* C32: snapshot variant, cache alignment: after every public operation the
\* key sequence of the snapshot cache equals the ID sequence of sorted_ops
\* (same length, same order), so the key pop_till_snapshot_lte returns in
\* merge is found by the binary search over sorted_ops and the unwrap there
\* never fails.
C32_KeysAligned ==
    /\ \A r \in Replicas : KeysAligned(snap[r])
    /\ panic.s # "unwrap"

\* A merge that restored a snapshot and replayed onto a cache that has
\* dropped a snapshot: it holds fewer snapshots than keys.
C32_Witness ==
    /\ mode = "snap" /\ last.op \in {"merge", "exchange"} /\ Running
    /\ last.s = "some"
    /\ CacheSize(snap[last.a].cache) < Len(snap[last.a].cache.keys)

====
